---------------------------- MODULE Spec2Model ----------------------------
(***************************************************************************)
(* A model of sportaki_schedule_converter.py.                              *)
(*                                                                         *)
(* Text is modelled character by character: a Python str is a sequence of  *)
(* one-character strings, so "a'b" is <<"a", "'", "b">>.  The regular       *)
(* expressions BLOCK_RE and PAIR_RE are modelled by scanners that take the  *)
(* same choices, in the same priority order, as Python's backtracking      *)
(* matcher takes on ASCII text.                                            *)
(***************************************************************************)
EXTENDS Integers, Sequences, FiniteSets, TLC

VARIABLES
    line_ev,        \* to_php_line: the argument ev (a field map)
    line_ret,       \* to_php_line: what the call gave (NoCall before it)
    conv_text,      \* convert: the argument text
    conv_ret,       \* convert: what the call gave (NoCall before it)
    input_text,     \* App.input_text: content of the input widget
    output_text,    \* App.output_text: content of the output widget
    pending_text,   \* App.pending_text: content of the pending widget
    file,           \* what save_output last wrote (NoFile before any write)
    dialog,         \* the message box the last handler showed ("none" if none)
    shown           \* the convert result the two result widgets were last
                    \* filled from (NoCall before any successful Convert)

vars == <<line_ev, line_ret, conv_text, conv_ret,
          input_text, output_text, pending_text, file, dialog, shown>>

NoCall == [called |-> FALSE]
NoFile == [written |-> FALSE]

-----------------------------------------------------------------------------
(* Characters and Python's str primitives                                  *)

Lower == <<"a","b","c","d","e","f","g","h","i","j","k","l","m",
           "n","o","p","q","r","s","t","u","v","w","x","y","z">>
Upper == <<"A","B","C","D","E","F","G","H","I","J","K","L","M",
           "N","O","P","Q","R","S","T","U","V","W","X","Y","Z">>
Digits == <<"0","1","2","3","4","5","6","7","8","9">>

\* The printable ASCII characters in code point order, from 32 (space) on.
Ascii == <<" ","!","\"","#","$","%","&","'","(",")","*","+",",","-",".","/">>
         \o Digits \o <<":",";","<","=",">","?","@">>
         \o Upper \o <<"[","\\","]","^","_","(grave accent)">>
         \o Lower \o <<"{","|","}","~">>

Range(q) == {q[i] : i \in DOMAIN q}

IndexOf(q, c) == CHOOSE i \in DOMAIN q : q[i] = c

\* ord(c), for the characters of the model.
Ord(c) ==
    IF c = "\t" THEN 9
    ELSE IF c = "\n" THEN 10
    ELSE IF c = "\f" THEN 12
    ELSE IF c = "\r" THEN 13
    ELSE 31 + IndexOf(Ascii, c)

IsDigit(c) == c \in Range(Digits)
IsAlpha(c) == c \in Range(Lower) \cup Range(Upper)
\* str.strip() and \s on ASCII text.
IsSpace(c) == c \in {" ", "\t", "\n", "\r", "\f"}

DigitVal(c) == IndexOf(Digits, c) - 1

UpperChar(c) == IF c \in Range(Lower) THEN Upper[IndexOf(Lower, c)] ELSE c
LowerChar(c) == IF c \in Range(Upper) THEN Lower[IndexOf(Upper, c)] ELSE c

\* str.upper() / str.lower()
StrUpper(s) == [i \in DOMAIN s |-> UpperChar(s[i])]
StrLower(s) == [i \in DOMAIN s |-> LowerChar(s[i])]

\* s[a:b] of Python with 1-based inclusive first index a and exclusive b.
Slice(s, a, b) == SubSeq(s, a, b - 1)

\* str.strip()
Strip(s) ==
    LET keep == {i \in DOMAIN s : ~IsSpace(s[i])}
    IN  IF keep = {} THEN <<>>
        ELSE LET lo == CHOOSE i \in keep : \A j \in keep : i <= j
                 hi == CHOOSE i \in keep : \A j \in keep : j <= i
             IN  SubSeq(s, lo, hi)

\* needle in hay
Contains(hay, needle) ==
    \E i \in 1..(Len(hay) - Len(needle) + 1) :
        SubSeq(hay, i, i + Len(needle) - 1) = needle

\* a < b for two str (code point order)
StrLess(a, b) ==
    \E i \in 1..Len(b) :
        /\ \A j \in 1..(i - 1) : j <= Len(a) /\ a[j] = b[j]
        /\ i > Len(a) \/ (i <= Len(a) /\ Ord(a[i]) < Ord(b[i]))

RECURSIVE Flatten(_)
\* "".join(parts)
Flatten(parts) ==
    IF parts = <<>> THEN <<>> ELSE Head(parts) \o Flatten(Tail(parts))

\* A slip the join could have: "".join(lines)
JoinNl_no_separator(lines) == Flatten(lines)

RECURSIVE JoinNl(_)
\* "\n".join(lines)
JoinNl(lines) ==
    IF lines = <<>> THEN <<>>
    ELSE IF Len(lines) = 1 THEN lines[1]
    ELSE lines[1] \o <<"\n">> \o JoinNl(Tail(lines))

-----------------------------------------------------------------------------
(* Field maps (Python dict with str keys and str values)                   *)

K_date == <<"d","a","t","e">>
K_start == <<"s","t","a","r","t">>
K_duration == <<"d","u","r","a","t","i","o","n">>
K_title == <<"t","i","t","l","e">>
K_sport == <<"s","p","o","r","t">>
K_competition == <<"c","o","m","p","e","t","i","t","i","o","n">>
K_comp == <<"c","o","m","p">>
K_url == <<"u","r","l">>

EmptyDict == [k \in {} |-> <<>>]

\* key in d
Has(d, k) == k \in DOMAIN d

\* d.get(k, "")
Get(d, k) == IF Has(d, k) THEN d[k] ELSE <<>>

\* d[k] = v
Put(d, k, v) == [x \in DOMAIN d \cup {k} |-> IF x = k THEN v ELSE d[x]]

-----------------------------------------------------------------------------
(* strip_quotes and php_escape                                             *)

strip_quotes(s0) ==
    LET s == Strip(s0)
    IN  IF Len(s) >= 2 /\ (   (s[1] = "'" /\ s[Len(s)] = "'")
                           \/ (s[1] = "\"" /\ s[Len(s)] = "\""))
        THEN SubSeq(s, 2, Len(s) - 1)
        ELSE s

\* s.replace(old, new) for a one-character old
Replace(s, old, new) ==
    Flatten([i \in DOMAIN s |-> IF s[i] = old THEN new ELSE <<s[i]>>])

\* A slip the escaping could have: quotes escaped first, then backslashes,
\* which doubles the backslash that was just put before each quote.
php_escape_quotes_first(s) ==
    Replace(Replace(s, "'", <<"\\", "'">>), "\\", <<"\\", "\\">>)

php_escape(s) ==
    Replace(Replace(s, "\\", <<"\\", "\\">>), "'", <<"\\", "'">>)

-----------------------------------------------------------------------------
(* float(s) and int(x) of Python, on ASCII text                            *)

RECURSIVE DigitGroupEnd(_, _)
\* The index after the longest  digit (["_"] digit)*  that starts at r[i];
\* i itself when r[i] is no digit.
DigitGroupEnd(r, i) ==
    IF i > Len(r) \/ ~IsDigit(r[i]) THEN i
    ELSE IF i + 1 <= Len(r) /\ IsDigit(r[i + 1]) THEN DigitGroupEnd(r, i + 1)
    ELSE IF i + 2 <= Len(r) /\ r[i + 1] = "_" /\ IsDigit(r[i + 2])
         THEN DigitGroupEnd(r, i + 2)
    ELSE i + 1

\* The digits of a digit group (its underscores dropped).
OnlyDigits(r) == SelectSeq(r, IsDigit)

RECURSIVE DropZeros(_)
DropZeros(ds) ==
    IF ds # <<>> /\ Head(ds) = "0" THEN DropZeros(Tail(ds)) ELSE ds

RECURSIVE ExpValue(_, _)
\* The value of an exponent's digits, saturated at 9999: every exponent
\* from 309 + (number of digits of the mantissa) on gives the same float.
ExpValue(ds, acc) ==
    IF ds = <<>> THEN acc
    ELSE ExpValue(Tail(ds),
                  IF acc * 10 + DigitVal(Head(ds)) > 9999 THEN 9999
                  ELSE acc * 10 + DigitVal(Head(ds)))

Zeros(n) == [i \in 1..n |-> "0"]

\* The digits of DBL_MAX = 1.7976931348623158e308 rounded up; a decimal of
\* 309 integer digits whose leading digits exceed these is out of range.
DblMaxDigits ==
    <<"1","7","9","7","6","9","3","1","3","4","8","6","2","3","1","5","8">>

\* The float a decimal denotes: its integer digits ip, fraction digits fp
\* and exponent exp; sig are the significant digits (leading zeros
\* dropped) and pos the number of digits before the decimal point.
FloatOfDigits(neg, sig, pos) ==
    IF /\ sig # <<>>
       /\ \/ pos > 309
          \/ pos = 309 /\ StrLess(DblMaxDigits,
                                  SubSeq(sig \o Zeros(Len(DblMaxDigits)),
                                         1, Len(DblMaxDigits)))
    THEN [kind |-> "inf", neg |-> neg, digits |-> <<>>]
    ELSE [kind |-> "finite", neg |-> neg,
          digits |-> IF sig = <<>> \/ pos <= 0 THEN <<"0">>
                     ELSE IF pos <= Len(sig) THEN SubSeq(sig, 1, pos)
                     ELSE sig \o Zeros(pos - Len(sig))]

FloatOfParts(neg, ip, fp, exp) ==
    FloatOfDigits(neg, DropZeros(ip \o fp),
                  Len(ip) + exp - (Len(ip \o fp) - Len(DropZeros(ip \o fp))))

Invalid == [kind |-> "invalid", neg |-> FALSE, digits |-> <<>>]

\* r[b..] is the exponent part (or nothing); e0 is its first digit and e1
\* the index after its last.
FloatExponent(r, neg, ip, fp, b, e0, e1) ==
    IF \/ ip = <<>> /\ fp = <<>>
       \/ e1 # Len(r) + 1
       \/ b <= Len(r) /\ e1 = e0
    THEN Invalid
    ELSE IF b > Len(r) THEN FloatOfParts(neg, ip, fp, 0)
    ELSE FloatOfParts(neg, ip, fp,
                      IF r[b + 1] = "-"
                      THEN 0 - ExpValue(OnlyDigits(Slice(r, e0, e1)), 0)
                      ELSE ExpValue(OnlyDigits(Slice(r, e0, e1)), 0))

\* e0 is the index of the first digit of the exponent at r[b].
FloatMantissa(r, neg, ip, fp, b, e0) ==
    FloatExponent(r, neg, ip, fp, b, e0,
                  IF b <= Len(r) /\ r[b] \in {"e", "E"}
                  THEN DigitGroupEnd(r, e0) ELSE b)

\* a is the index after the integer digits of r, b after the fraction.
FloatFraction(r, neg, a, b) ==
    FloatMantissa(r, neg,
                  OnlyDigits(Slice(r, 1, a)),
                  IF a < b THEN OnlyDigits(Slice(r, a + 1, b)) ELSE <<>>,
                  b,
                  IF b + 1 <= Len(r) /\ r[b + 1] \in {"+", "-"}
                  THEN b + 2 ELSE b + 1)

FloatInteger(r, neg, a) ==
    FloatFraction(r, neg, a,
                  IF a <= Len(r) /\ r[a] = "." THEN DigitGroupEnd(r, a + 1)
                  ELSE a)

\* r is the text after the sign.
FloatUnsigned(r, neg) ==
    IF StrLower(r) \in {<<"i","n","f">>, <<"i","n","f","i","n","i","t","y">>}
        THEN [kind |-> "inf", neg |-> neg, digits |-> <<>>]
    ELSE IF StrLower(r) = <<"n","a","n">>
        THEN [kind |-> "nan", neg |-> neg, digits |-> <<>>]
    ELSE FloatInteger(r, neg, DigitGroupEnd(r, 1))

FloatStripped(s) ==
    FloatUnsigned(IF s # <<>> /\ s[1] \in {"+", "-"} THEN Tail(s) ELSE s,
                  s # <<>> /\ s[1] = "-")

\* float(s0).  kind is "invalid" (float raises ValueError), "nan", "inf"
\* or "finite"; for "finite", digits are the decimal digits of the integer
\* part (|x| truncated toward zero, "0" when it is zero) and neg the sign.
\* Beyond 2**53 CPython's double keeps only 53 bits, so there the low-order
\* digits of digits are those of the decimal and not of the double.
PyFloat(s0) == FloatStripped(Strip(s0))

\* int(f) and str() of it: exc names the exception int raises ("none" when
\* it gives an int); float's own ValueError is passed on.
IntOf(f) ==
    CASE f.kind = "invalid" -> [exc |-> "ValueError", text |-> <<>>]
      [] f.kind = "nan" -> [exc |-> "ValueError", text |-> <<>>]
      [] f.kind = "inf" -> [exc |-> "OverflowError", text |-> <<>>]
      [] OTHER ->
           [exc |-> "none",
            text |-> IF f.neg /\ f.digits # <<"0">>
                     THEN <<"-">> \o f.digits ELSE f.digits]

\* int(float(s)) as try/except sees it.
IntOfFloat(s) == IntOf(PyFloat(s))

-----------------------------------------------------------------------------
(* to_php_line                                                             *)

\* 'key'=>
PhpKey(k) == <<"'">> \o k \o <<"'", "=", ">">>

\* 'text'
Quoted(text) == <<"'">> \o text \o <<"'">>

\* a or b, for two str (None is modelled by the empty str: both are falsy)
Or(a, b) == IF a # <<>> THEN a ELSE b

\* A slip the handler could have: only ValueError is caught.
Caught_only_ValueError(exc) == exc = "ValueError"

\* "except Exception" catches ValueError and OverflowError alike.
Caught(exc) == exc \in {"ValueError", "OverflowError"}

\* Lines 54 and 56: the duration part for the raw text and the outcome
\* conv of int(float(raw)), or the exception that leaves to_php_line.
DurText(raw, conv) ==
    IF conv.exc = "none"
    THEN [raised |-> FALSE, text |-> PhpKey(K_duration) \o conv.text]
    ELSE IF Caught(conv.exc)
    THEN [raised |-> FALSE,
          text |-> PhpKey(K_duration) \o Quoted(php_escape(raw))]
    ELSE [raised |-> TRUE, text |-> <<>>]

\* A slip the coercion could have: int(duration_raw) without float(), which
\* refuses every text with a fraction or an exponent.
dur_part_without_float(ev) ==
    DurText(Get(ev, K_duration),
            IF \E i \in DOMAIN Get(ev, K_duration) :
                   Get(ev, K_duration)[i] \in {".", "e", "E"}
            THEN [exc |-> "ValueError", text |-> <<>>]
            ELSE IntOfFloat(Get(ev, K_duration)))

\* Lines 50-56
dur_part(ev) == DurText(Get(ev, K_duration), IntOfFloat(Get(ev, K_duration)))

\* A slip line 48 could have: no fallback to comp when rendering.
competition_of_no_fallback(ev) == Get(ev, K_competition)

\* Line 48: ev.get("competition") or ev.get("comp") or ""
competition_of(ev) == Or(Get(ev, K_competition), Or(Get(ev, K_comp), <<>>))

\* 'key'=>'escaped value'
PhpField(k, v) == PhpKey(k) \o Quoted(php_escape(v))

\* Lines 58-68: the line, given the duration part dur.
LineWith(ev, dur) ==
    IF dur.raised THEN [raised |-> TRUE, line |-> <<>>]
    ELSE [raised |-> FALSE,
          line |->
             <<"[">> \o PhpField(K_date, Get(ev, K_date)) \o <<",">>
             \o PhpField(K_start, Get(ev, K_start)) \o <<",">>
             \o dur.text \o <<",">>
             \o PhpField(K_title, Get(ev, K_title)) \o <<",">>
             \o PhpField(K_sport, Get(ev, K_sport)) \o <<",">>
             \o PhpField(K_competition, competition_of(ev)) \o <<",">>
             \o PhpField(K_url, Get(ev, K_url)) \o <<"]", ",">>]

\* to_php_line(ev): [raised, line].
to_php_line(ev) == LineWith(ev, dur_part(ev))

-----------------------------------------------------------------------------
(* BLOCK_RE.findall and PAIR_RE.finditer                                    *)

NotBrace(c) == c \notin {"{", "}"}
IsIdentStart(c) == IsAlpha(c) \/ c = "_"
IsIdent(c) == IsIdentStart(c) \/ IsDigit(c)
NotCloseParen(c) == c # ")"
NotCommaBrace(c) == c \notin {",", "}"}

\* The character classes of the two patterns.
InClass(cls, c) ==
    CASE cls = "space" -> IsSpace(c)
      [] cls = "digit" -> IsDigit(c)
      [] cls = "ident" -> IsIdent(c)
      [] cls = "not_brace" -> NotBrace(c)
      [] cls = "not_close_paren" -> NotCloseParen(c)
      [] cls = "not_comma_brace" -> NotCommaBrace(c)

\* The index after the longest run of characters of the class cls that
\* starts at t[i] (a greedy  [class]* ).
RunEnd(cls, t, i) ==
    CHOOSE j \in i..(Len(t) + 1) :
        /\ j = Len(t) + 1 \/ ~InClass(cls, t[j])
        /\ \A k \in i..(j - 1) : InClass(cls, t[k])

\* <<hi, hi - 1, ..., lo>>: the ends a greedy repetition gives back, in the
\* order backtracking tries them.
Down(hi, lo) == [k \in 1..(hi - lo + 1) |-> hi + 1 - k]

RECURSIVE FindBlocks(_, _)
\* BLOCK_RE.findall(text) from text[i] on:  \{([^{}]*)\}  matches at the
\* first "{" whose run of non-brace characters ends in "}".
FindBlocks(text, i) ==
    IF i > Len(text) THEN <<>>
    ELSE IF text[i] # "{" THEN FindBlocks(text, i + 1)
    ELSE LET j == RunEnd("not_brace", text, i + 1)
         IN  IF j <= Len(text) /\ text[j] = "}"
             THEN <<Slice(text, i + 1, j)>> \o FindBlocks(text, j + 1)
             ELSE FindBlocks(text, i + 1)

\*  \s*(?:,|$)  at t[e]: the index after it, or 0 when it does not match.
\* ($ also matches before a final newline, which the greedy \s* has taken.)
PairEnd(t, e) ==
    LET w == RunEnd("space", t, e)
    IN  IF w > Len(t) THEN w
        ELSE IF t[w] = "," THEN w + 1
        ELSE 0

RECURSIVE QuotedEnds(_, _, _)
\* The ends of  (?:\\q|[^q])*q  from t[i] on, for the quote character q, in
\* the order backtracking tries them.
QuotedEnds(t, i, q) ==
    IF i > Len(t) THEN <<>>
    ELSE (IF t[i] = "\\" /\ i + 1 <= Len(t) /\ t[i + 1] = q
          THEN QuotedEnds(t, i + 2, q) ELSE <<>>)
         \o (IF t[i] # q THEN QuotedEnds(t, i + 1, q) ELSE <<>>)
         \o (IF t[i] = q THEN <<i + 1>> ELSE <<>>)

\* The ends of  -?\d+(?:\.\d+)?  at t[v].
NumberEnds(t, v) ==
    LET d0 == IF t[v] = "-" THEN v + 1 ELSE v
        d1 == RunEnd("digit", t, d0)
        f1 == IF d1 <= Len(t) /\ t[d1] = "." THEN RunEnd("digit", t, d1 + 1)
              ELSE d1
    IN  IF d1 = d0 THEN <<>>
        ELSE (IF f1 > d1 + 1 THEN Down(f1, d1 + 2) ELSE <<>>)
             \o Down(d1, d0 + 1)

\* The ends of  \([^)]+\)  at t[v].
ParenEnds(t, v) ==
    LET c == RunEnd("not_close_paren", t, v + 1)
    IN  IF t[v] = "(" /\ c > v + 1 /\ c <= Len(t) THEN <<c + 1>> ELSE <<>>

\* The ends of  [^,}]+  at t[v].
FallbackEnds(t, v) == Down(RunEnd("not_comma_brace", t, v), v + 1)

\* The ends of the group val at t[v]: its five alternatives in order.
ValEnds(t, v) ==
    IF v > Len(t) THEN <<>>
    ELSE (IF t[v] = "'" THEN QuotedEnds(t, v + 1, "'") ELSE <<>>)
         \o (IF t[v] = "\"" THEN QuotedEnds(t, v + 1, "\"") ELSE <<>>)
         \o NumberEnds(t, v)
         \o ParenEnds(t, v)
         \o FallbackEnds(t, v)

\* The first of cands after which the pair can end; 0 if none.
FirstEnd(t, cands) ==
    IF \A k \in DOMAIN cands : PairEnd(t, cands[k]) = 0 THEN 0
    ELSE cands[CHOOSE k \in DOMAIN cands :
                   /\ PairEnd(t, cands[k]) # 0
                   /\ \A x \in 1..(k - 1) : PairEnd(t, cands[x]) = 0]

\* The first end of val at t[v] after which the pair can end; 0 if none.
ValEnd(t, v) == FirstEnd(t, ValEnds(t, v))

\* The first of starts at which val matches and the pair can end; 0 if none.
FirstStart(t, starts) ==
    IF \A k \in DOMAIN starts : ValEnd(t, starts[k]) = 0 THEN 0
    ELSE starts[CHOOSE k \in DOMAIN starts :
                    /\ ValEnd(t, starts[k]) # 0
                    /\ \A x \in 1..(k - 1) : ValEnd(t, starts[x]) = 0]

NoMatch == [ok |-> FALSE, key |-> <<>>, val |-> <<>>, end |-> 0]

\* The match whose key is t[p..ke-1] and whose val is t[v..e-1].
MatchOf(t, p, ke, v, e) ==
    [ok |-> TRUE, key |-> Slice(t, p, ke), val |-> Slice(t, v, e),
     end |-> PairEnd(t, e)]

MatchVal(t, p, ke, v) ==
    IF v = 0 THEN NoMatch ELSE MatchOf(t, p, ke, v, ValEnd(t, v))

\* c is the index after the \s* that follows the key: ":" must be there.
\* The \s* after ":" gives characters back to val one at a time.
MatchColon(t, p, ke, c) ==
    IF c > Len(t) \/ t[c] # ":" THEN NoMatch
    ELSE MatchVal(t, p, ke,
                  FirstStart(t, Down(RunEnd("space", t, c + 1), c + 1)))

\* ke is the index after the key, which is as long as it can be.
MatchKey(t, p, ke) == MatchColon(t, p, ke, RunEnd("space", t, ke))

\* PAIR_RE.match at t[p].
MatchAt(t, p) ==
    IF ~IsIdentStart(t[p]) THEN NoMatch
    ELSE MatchKey(t, p, RunEnd("ident", t, p))

RECURSIVE FindPairs(_, _)
RECURSIVE PairsFrom(_, _, _)
\* PAIR_RE.finditer(t) from t[p] on, m being the match at t[p].
PairsFrom(t, p, m) ==
    IF m.ok THEN <<m>> \o FindPairs(t, m.end) ELSE FindPairs(t, p + 1)

FindPairs(t, p) ==
    IF p > Len(t) THEN <<>> ELSE PairsFrom(t, p, MatchAt(t, p))

RECURSIVE FillDict(_, _)
FillDict(d, ms) ==
    IF ms = <<>> THEN d
    ELSE FillDict(Put(d, Strip(Head(ms).key),
                      strip_quotes(Strip(Head(ms).val))),
                  Tail(ms))

parse_block(block_text) == FillDict(EmptyDict, FindPairs(block_text, 1))

-----------------------------------------------------------------------------
(* convert                                                                 *)

ANAMONH == <<"A","N","A","M","O","N","H">>

\* Lines 77-80: the blocks the loop skips.
\* A slip the filter could have: a block needs both keys to be kept.
Accepted_needs_both(ev) ==
    ev # EmptyDict /\ Has(ev, K_date) /\ Has(ev, K_title)

Accepted(ev) ==
    /\ ev # EmptyDict
    /\ ~(~Has(ev, K_date) /\ ~Has(ev, K_title))

\* Line 83: (ev.get("url") or "").strip()
pending_url(ev) == Strip(Or(Get(ev, K_url), <<>>))

\* A slip the detection could have: the marker is looked for as written.
IsPending_case_sensitive(ev) == Contains(pending_url(ev), ANAMONH)

\* Line 84
IsPending(ev) == Contains(StrUpper(pending_url(ev)), ANAMONH)

\* Lines 85-90
PendingEntry(ev) ==
    [date |-> Get(ev, K_date), start |-> Get(ev, K_start),
     title |-> Get(ev, K_title), url |-> pending_url(ev)]

\* Lines 93-94
Normalize(ev) ==
    IF ~Has(ev, K_competition) /\ Has(ev, K_comp)
    THEN Put(ev, K_competition, Get(ev, K_comp))
    ELSE ev

RECURSIVE Loop(_, _, _)
\* Lines 77-96: one pass of the loop, for the field map ev of the first
\* of blocks.
LoopStep(blocks, events, pending, ev) ==
    IF ~Accepted(ev) THEN Loop(Tail(blocks), events, pending)
    ELSE Loop(Tail(blocks),
              Append(events, Normalize(ev)),
              IF IsPending(ev) THEN Append(pending, PendingEntry(ev))
              ELSE pending)

\* Lines 75-96: the loop over the blocks, giving events and pending.
Loop(blocks, events, pending) ==
    IF blocks = <<>> THEN [events |-> events, pending |-> pending]
    ELSE LoopStep(blocks, events, pending, parse_block(Head(blocks)))

\* The sort key of line 99 and the order of two keys (tuples of str).
SortKey(e) == <<Get(e, K_date), Get(e, K_start)>>

\* A slip the sort could have: the key is the date alone.
KeyLess_date_only(a, b) == StrLess(a[1], b[1])

KeyLess(a, b) ==
    \/ StrLess(a[1], b[1])
    \/ a[1] = b[1] /\ StrLess(a[2], b[2])

InsertAt(sorted, e, at) ==
    SubSeq(sorted, 1, at - 1) \o <<e>> \o SubSeq(sorted, at, Len(sorted))

\* list.sort is stable: e goes before the first element that is greater.
InsertSorted(sorted, e) ==
    InsertAt(sorted, e,
             IF \A k \in DOMAIN sorted :
                    ~KeyLess(SortKey(e), SortKey(sorted[k]))
             THEN Len(sorted) + 1
             ELSE CHOOSE k \in DOMAIN sorted :
                      /\ KeyLess(SortKey(e), SortKey(sorted[k]))
                      /\ \A x \in 1..(k - 1) :
                             ~KeyLess(SortKey(e), SortKey(sorted[x])))

RECURSIVE SortEvents(_, _)
\* Line 99: events.sort(key=...), as insertion of events[i..] into sorted.
SortEvents(sorted, rest) ==
    IF rest = <<>> THEN sorted
    ELSE SortEvents(InsertSorted(sorted, Head(rest)), Tail(rest))

\* A slip the grouping could have: last_date starts as "" and not as None,
\* so a first event with a date is taken for a change of date.
NeedsBlank_from_empty(last_date, d) ==
    IF last_date = <<>> THEN d # <<>> ELSE d # last_date[1]

\* Line 106.  last_date is <<>> for None and <<d>> for the str d.
NeedsBlank(last_date, d) == last_date # <<>> /\ d # last_date[1]

RECURSIVE BuildLines(_, _, _)
\* Lines 105-109: one pass of the loop, for the date d and the line l of
\* the first of events.
BuildStep(events, last_date, out_lines, d, l) ==
    IF l.raised THEN [raised |-> TRUE, out_lines |-> <<>>]
    ELSE BuildLines(Tail(events), <<d>>,
                    out_lines
                    \o (IF NeedsBlank(last_date, d) THEN << <<>> >> ELSE <<>>)
                    \o <<l.line>>)

\* Lines 102-109: out_lines, or raised when to_php_line raises.
BuildLines(events, last_date, out_lines) ==
    IF events = <<>> THEN [raised |-> FALSE, out_lines |-> out_lines]
    ELSE BuildStep(events, last_date, out_lines,
                   Get(Head(events), K_date), to_php_line(Head(events)))

\* Line 111.  Besides the two values returned (out, pending), accepted and
\* events keep the events list before and after the sort of line 99.
Return(loop, events, built) ==
    IF built.raised
    THEN [called |-> TRUE, raised |-> TRUE, out |-> <<>>,
          pending |-> <<>>, accepted |-> loop.events, events |-> events]
    ELSE [called |-> TRUE, raised |-> FALSE,
          out |-> JoinNl(built.out_lines),
          pending |-> loop.pending,
          accepted |-> loop.events, events |-> events]

\* Lines 101-109
Render(loop, events) == Return(loop, events, BuildLines(events, <<>>, <<>>))

\* Lines 98-99
SortAndRender(loop) == Render(loop, SortEvents(<<>>, loop.events))

\* convert(text)
convert(text) == SortAndRender(Loop(FindBlocks(text, 1), <<>>, <<>>))

-----------------------------------------------------------------------------
(* Inputs of to_php_line                                                   *)

SeqsUpTo(S, n) == UNION {[1..k -> S] : k \in 0..n}

MaxDurToks == 3
MaxEscLen == 3

\* Pieces duration values are put together from.
DurToks == {<<"-">>, <<".">>, <<"0">>, <<"9">>, <<"9","9","9">>, <<"e">>,
            <<"i","n","f">>, <<"n","a","n">>, <<" ">>, <<"x">>}

DurStrings == {Flatten(q) : q \in SeqsUpTo(DurToks, MaxDurToks)}

EscStrings == SeqsUpTo({"\\", "'", "a"}, MaxEscLen)

BaseEv == Put(Put(EmptyDict, K_date, <<"1">>), K_title, <<"t">>)

LineKeys == {K_date, K_start, K_duration, K_title, K_sport,
             K_competition, K_comp, K_url}

LineEvs == {Put(BaseEv, K_duration, d) : d \in DurStrings}
           \cup {Put(BaseEv, k, v) : k \in LineKeys, v \in EscStrings}
           \cup {BaseEv, EmptyDict}

-----------------------------------------------------------------------------
(* Specification of to_php_line as a function                              *)

InitLine ==
    /\ line_ev \in LineEvs /\ line_ret = NoCall
    /\ conv_text = <<>> /\ conv_ret = NoCall
    /\ input_text = <<>> /\ output_text = <<>> /\ pending_text = <<>>
    /\ file = NoFile /\ dialog = "none" /\ shown = NoCall

ToPhpLine ==
    /\ line_ret = NoCall
    /\ \E r \in {to_php_line(line_ev)} :
           line_ret' = [called |-> TRUE, raised |-> r.raised, line |-> r.line]
    /\ UNCHANGED <<line_ev, conv_text, conv_ret, input_text, output_text,
                   pending_text, file, dialog, shown>>

NextLine == ToPhpLine

SpecLine == InitLine /\ [][NextLine]_vars

-----------------------------------------------------------------------------
(* Reading a line back as PHP reads it                                     *)

RECURSIVE ReadQuoted(_, _, _)
\* A single-quoted PHP literal whose opening quote is at l[i - 1]: in it
\* \\ stands for \ and \' for ', and the first bare ' ends it.
ReadQuoted(l, i, acc) ==
    IF i > Len(l) THEN [ok |-> FALSE, text |-> acc, next |-> i]
    ELSE IF l[i] = "'" THEN [ok |-> TRUE, text |-> acc, next |-> i + 1]
    ELSE IF l[i] = "\\" /\ i + 1 <= Len(l) /\ l[i + 1] \in {"\\", "'"}
         THEN ReadQuoted(l, i + 2, Append(acc, l[i + 1]))
    ELSE ReadQuoted(l, i + 1, Append(acc, l[i]))

RECURSIVE NumberEnd(_, _)
NumberEnd(l, i) ==
    IF i <= Len(l) /\ IsDigit(l[i]) THEN NumberEnd(l, i + 1) ELSE i

\* A PHP value at l[i]: a single-quoted literal or an integer literal.
ReadValue(l, i) ==
    IF i > Len(l) THEN [ok |-> FALSE, quoted |-> FALSE, text |-> <<>>, next |-> i]
    ELSE IF l[i] = "'"
    THEN LET q == ReadQuoted(l, i + 1, <<>>)
         IN  [ok |-> q.ok, quoted |-> TRUE, text |-> q.text, next |-> q.next]
    ELSE LET d0 == IF l[i] = "-" THEN i + 1 ELSE i
             d1 == NumberEnd(l, d0)
         IN  [ok |-> d1 > d0, quoted |-> FALSE,
              text |-> Slice(l, i, d1), next |-> d1]

RECURSIVE ReadEntries(_, _, _)
\* 'key'=>value entries from l[i] on, up to the closing "],": a sequence
\* of [key, quoted, text], or <<>> with ok FALSE when l is no such array.
ReadEntries(l, i, acc) ==
    LET k == ReadValue(l, i)
        arrow == /\ k.ok /\ k.quoted /\ k.next + 1 <= Len(l)
                 /\ l[k.next] = "=" /\ l[k.next + 1] = ">"
        v == ReadValue(l, k.next + 2)
        more == Append(acc, [key |-> k.text, quoted |-> v.quoted,
                             text |-> v.text])
    IN  IF ~arrow \/ ~v.ok \/ v.next > Len(l)
            THEN [ok |-> FALSE, entries |-> <<>>]
        ELSE IF l[v.next] = "," THEN ReadEntries(l, v.next + 1, more)
        ELSE IF Slice(l, v.next, Len(l) + 1) = <<"]", ",">>
            THEN [ok |-> TRUE, entries |-> more]
        ELSE [ok |-> FALSE, entries |-> <<>>]

\* The array a rendered line denotes in PHP.
PhpRead(l) ==
    IF l = <<>> \/ l[1] # "[" THEN [ok |-> FALSE, entries |-> <<>>]
    ELSE ReadEntries(l, 2, <<>>)

-----------------------------------------------------------------------------
(* Inputs of convert: texts put together from a few pieces                 *)

MaxBlocks == 3

\* Well and ill formed blocks, and text outside blocks.
ParsePieces == {
    \* {date:'1'}
    <<"{","d","a","t","e",":","'","1","'","}">>,
    \* {date:''}
    <<"{","d","a","t","e",":","'","'","}">>,
    \* {sport:'F'}
    <<"{","s","p","o","r","t",":","'","F","'","}">>,
    \* {title:'a\nb'}
    <<"{","t","i","t","l","e",":","'","a","\n","b","'","}">>,
    \* {title:a\nb,}
    <<"{","t","i","t","l","e",":","a","\n","b",",","}">>,
    \* x:1,
    <<"x",":","1",",">>,
    \* {
    <<"{">>,
    \* { }
    <<"{"," ","}">>,
    \* {title:'t',duration:inf}
    <<"{","t","i","t","l","e",":","'","t","'",",","d","u","r","a","t","i","o","n",
      ":","i","n","f","}">>}

\* Events whose dates and starts repeat, differ and are missing.
SortPieces == {
    \* {date:'2',start:'1',title:'a'}
    <<"{","d","a","t","e",":","'","2","'",",","s","t","a","r","t",":",
      "'","1","'",",","t","i","t","l","e",":","'","a","'","}">>,
    \* {title:'b',start:'1',date:'2'}
    <<"{","t","i","t","l","e",":","'","b","'",",","s","t","a","r","t",
      ":","'","1","'",",","d","a","t","e",":","'","2","'","}">>,
    \* {date:'10',title:'c'}
    <<"{","d","a","t","e",":","'","1","0","'",",","t","i","t","l","e",
      ":","'","c","'","}">>,
    \* {date:'2',start:'0'}
    <<"{","d","a","t","e",":","'","2","'",",","s","t","a","r","t",":",
      "'","0","'","}">>,
    \* {start:'9',title:'e'}
    <<"{","s","t","a","r","t",":","'","9","'",",","t","i","t","l","e",
      ":","'","e","'","}">>,
    \* {date:'10',start:'',title:'f'}
    <<"{","d","a","t","e",":","'","1","0","'",",","s","t","a","r","t",
      ":","'","'",",","t","i","t","l","e",":","'","f","'","}">>}

\* Events with competition, comp, both or neither.
CompPieces == {
    \* {title:'t',competition:'L'}
    <<"{","t","i","t","l","e",":","'","t","'",",","c","o","m","p","e",
      "t","i","t","i","o","n",":","'","L","'","}">>,
    \* {title:'t',comp:'C'}
    <<"{","t","i","t","l","e",":","'","t","'",",","c","o","m","p",":",
      "'","C","'","}">>,
    \* {title:'t',competition:'',comp:'C'}
    <<"{","t","i","t","l","e",":","'","t","'",",","c","o","m","p","e",
      "t","i","t","i","o","n",":","'","'",",","c","o","m","p",":","'",
      "C","'","}">>,
    \* {date:'1',comp:'C',competition:'L'}
    <<"{","d","a","t","e",":","'","1","'",",","c","o","m","p",":","'",
      "C","'",",","c","o","m","p","e","t","i","t","i","o","n",":","'",
      "L","'","}">>,
    \* {date:'1'}
    <<"{","d","a","t","e",":","'","1","'","}">>,
    \* {date:'1',comp:''}
    <<"{","d","a","t","e",":","'","1","'",",","c","o","m","p",":","'",
      "'","}">>}

\* Events and discarded blocks with and without the pending marker.
UrlPieces == {
    \* {date:'2',title:'p',url:'ANAMONH'}
    <<"{","d","a","t","e",":","'","2","'",",","t","i","t","l","e",":",
      "'","p","'",",","u","r","l",":","'","A","N","A","M","O","N","H",
      "'","}">>,
    \* {date:'1',title:'q',url:(anamonh link)}
    <<"{","d","a","t","e",":","'","1","'",",","t","i","t","l","e",":",
      "'","q","'",",","u","r","l",":","(","a","n","a","m","o","n","h",
      " ","l","i","n","k",")","}">>,
    \* {date:'1',title:'r',url:'x'}
    <<"{","d","a","t","e",":","'","1","'",",","t","i","t","l","e",":",
      "'","r","'",",","u","r","l",":","'","x","'","}">>,
    \* {url:'ANAMONH'}
    <<"{","u","r","l",":","'","A","N","A","M","O","N","H","'","}">>,
    \* {title:'s',url:' AnaMonH\''}
    <<"{","t","i","t","l","e",":","'","s","'",",","u","r","l",":","'",
      " ","A","n","a","M","o","n","H","\\","'","'","}">>,
    \* {date:'3',url:"anamon h"}
    <<"{","d","a","t","e",":","'","3","'",",","u","r","l",":","\"","a",
      "n","a","m","o","n"," ","h","\"","}">>}

Texts(pieces) == {Flatten(q) : q \in SeqsUpTo(pieces, MaxBlocks)}

ConvertTexts == Texts(ParsePieces) \cup Texts(SortPieces)
                \cup Texts(CompPieces) \cup Texts(UrlPieces)

-----------------------------------------------------------------------------
(* Specification of convert as a function                                  *)

Init ==
    /\ conv_text \in ConvertTexts /\ conv_ret = NoCall
    /\ line_ev = EmptyDict /\ line_ret = NoCall
    /\ input_text = <<>> /\ output_text = <<>> /\ pending_text = <<>>
    /\ file = NoFile /\ dialog = "none" /\ shown = NoCall

Convert ==
    /\ conv_ret = NoCall
    /\ conv_ret' = convert(conv_text)
    /\ UNCHANGED <<line_ev, line_ret, conv_text, input_text, output_text,
                   pending_text, file, dialog, shown>>

Next == Convert

Spec == Init /\ [][Next]_vars

-----------------------------------------------------------------------------
(* Properties of convert                                                   *)

RECURSIVE SplitNl(_)
\* text.split("\n")
SplitNl(text) ==
    LET nl == {i \in DOMAIN text : text[i] = "\n"}
    IN  IF nl = {} THEN <<text>>
        ELSE LET i == CHOOSE x \in nl : \A y \in nl : x <= y
             IN  <<SubSeq(text, 1, i - 1)>>
                 \o SplitNl(SubSeq(text, i + 1, Len(text)))

NonBlank(l) == l # <<>>

\* The lines of a text that are not blank.
NonBlankLines(text) == SelectSeq(SplitNl(text), NonBlank)

Returned == conv_ret.called /\ ~conv_ret.raised

\* The field maps of the blocks of conv_text, in block order, and those of
\* them that hold a date key or a title key.
Parsed ==
    LET blocks == FindBlocks(conv_text, 1)
    IN  [b \in DOMAIN blocks |-> parse_block(blocks[b])]

HasDateOrTitle(ev) == Has(ev, K_date) \/ Has(ev, K_title)

HasFilledDateOrTitle(ev) == Get(ev, K_date) # <<>> \/ Get(ev, K_title) # <<>>

Kept == SelectSeq(Parsed, HasDateOrTitle)

HasNewline(ev) == \E k \in DOMAIN ev : \E i \in DOMAIN ev[k] : ev[k][i] = "\n"

\* C1 as claimed: for every input, the number of non-blank lines of the
\* output equals the number of accepted events.
C1_LineCountAlways ==
    Returned => Len(NonBlankLines(conv_ret.out)) = Len(conv_ret.accepted)

\* C1 as amended: when no field value of an accepted event contains a
\* newline, the number of non-blank lines of the output equals the number
\* of accepted events (pending events included).
C1_LineCount ==
    (Returned /\ \A i \in DOMAIN conv_ret.accepted :
                     ~HasNewline(conv_ret.accepted[i]))
    => Len(NonBlankLines(conv_ret.out)) = Len(conv_ret.accepted)

\* Two accepted events on different dates, one of them pending.
C1_Witness ==
    /\ Returned
    /\ Len(conv_ret.accepted) >= 2
    /\ conv_ret.pending # <<>>
    /\ \A i \in DOMAIN conv_ret.accepted : ~HasNewline(conv_ret.accepted[i])
    /\ Len(SplitNl(conv_ret.out)) > Len(conv_ret.accepted)

\* C2 as claimed: the accepted blocks are those whose field map holds a
\* non-empty date or a non-empty title.
C2_AcceptFilled ==
    Returned =>
        Len(conv_ret.accepted) = Len(SelectSeq(Parsed, HasFilledDateOrTitle))

\* C2 as amended: a block is accepted, and rendered, if and only if its
\* field map holds the key date or the key title, whatever their values.
C2_AcceptByKey ==
    Returned =>
        \A kept \in {Kept} :
            /\ Len(conv_ret.accepted) = Len(kept)
            /\ Len(conv_ret.events) = Len(kept)
            /\ \A i \in DOMAIN conv_ret.accepted :
                   /\ HasDateOrTitle(conv_ret.accepted[i])
                   /\ \A k \in DOMAIN kept[i] :
                          conv_ret.accepted[i][k] = kept[i][k]

\* A block with an empty date is accepted beside a block that is discarded.
C2_Witness ==
    /\ Returned
    /\ \E b \in DOMAIN Parsed :
           Has(Parsed[b], K_date) /\ ~HasFilledDateOrTitle(Parsed[b])
    /\ \E b \in DOMAIN Parsed :
           Parsed[b] # EmptyDict /\ ~HasDateOrTitle(Parsed[b])
    /\ Len(conv_ret.accepted) = 1

\* (date, start) of an event, and the order of two such pairs.
DateStart(e) == <<Get(e, K_date), Get(e, K_start)>>

PairLeq(a, b) ==
    \/ StrLess(a[1], b[1])
    \/ a[1] = b[1] /\ (StrLess(a[2], b[2]) \/ a[2] = b[2])

Orders(n) ==
    {f \in [1..n -> 1..n] : \A i, j \in 1..n : f[i] = f[j] => i = j}

\* A text with its blank lines left out.
Squeeze(text) == JoinNl(NonBlankLines(text))

\* C3: the event lines of the output are the accepted events in ascending
\* order of (date, start), events with equal (date, start) in block order.
C3_SortedStable ==
    Returned =>
        \E f \in Orders(Len(conv_ret.accepted)) :
            LET acc == conv_ret.accepted
                n == Len(acc)
            IN  /\ \A i, j \in 1..n :
                       i < j => /\ PairLeq(DateStart(acc[f[i]]),
                                           DateStart(acc[f[j]]))
                                /\ DateStart(acc[f[i]]) = DateStart(acc[f[j]])
                                       => f[i] < f[j]
                /\ Squeeze(conv_ret.out)
                       = Squeeze(JoinNl([i \in 1..n |->
                                            to_php_line(acc[f[i]]).line]))

\* Three events: two share (date, start) and differ, one comes earlier in
\* the text than an event it follows in the output.
C3_Witness ==
    /\ Returned
    /\ Len(conv_ret.accepted) = 3
    /\ \E i, j \in 1..3 :
           /\ i < j
           /\ DateStart(conv_ret.accepted[i]) = DateStart(conv_ret.accepted[j])
           /\ conv_ret.accepted[i] # conv_ret.accepted[j]
    /\ \E i, j \in 1..3 :
           /\ i < j
           /\ ~PairLeq(DateStart(conv_ret.accepted[i]),
                       DateStart(conv_ret.accepted[j]))
           /\ Get(conv_ret.accepted[i], K_date)
                  = Get(conv_ret.accepted[j], K_date)

\* C4: the output is the rendered lines of the sorted events, each two in a
\* row parted by a newline and one blank line when their dates differ and
\* by a newline alone when they are equal; nothing before the first line
\* and nothing after the last.
C4_BlankLines ==
    Returned =>
        LET evs == conv_ret.events
            gap(i) == IF i = 1 THEN <<>>
                      ELSE IF Get(evs[i - 1], K_date) # Get(evs[i], K_date)
                      THEN <<"\n", "\n">>
                      ELSE <<"\n">>
        IN  conv_ret.out = Flatten([i \in DOMAIN evs |->
                                       gap(i) \o to_php_line(evs[i]).line])

\* Three events in a row, the first two on one date, the third on another.
C4_Witness ==
    /\ Returned
    /\ Len(conv_ret.events) = 3
    /\ Get(conv_ret.events[1], K_date) = Get(conv_ret.events[2], K_date)
    /\ Get(conv_ret.events[2], K_date) # Get(conv_ret.events[3], K_date)
    /\ Get(conv_ret.events[1], K_date) # <<>>

\* The competition a line shows, as PHP reads the line.
ShownCompetition(line) == PhpRead(line).entries[6].text

\* C5 as claimed: the competition shown is that of the key competition
\* whenever the block has the key, comp only when it has not.
C5_CompetitionByKey ==
    Returned =>
        \A kept \in {Kept} :
            \A i \in DOMAIN conv_ret.accepted :
                ShownCompetition(to_php_line(conv_ret.accepted[i]).line)
                    = IF Has(kept[i], K_competition)
                      THEN kept[i][K_competition]
                      ELSE Get(kept[i], K_comp)

\* C5 as amended: the competition shown is the value of competition when
\* the key is present with a non-empty value, otherwise the value of comp
\* when that key is present, otherwise empty.
C5_CompetitionByValue ==
    Returned =>
        \A kept \in {Kept} :
            \A i \in DOMAIN conv_ret.accepted :
                \A line \in {to_php_line(conv_ret.accepted[i]).line} :
                    /\ Contains(conv_ret.out, line)
                    /\ \A read \in {PhpRead(line)} :
                           /\ read.ok
                           /\ read.entries[6].text
                                  = IF Get(kept[i], K_competition) # <<>>
                                    THEN kept[i][K_competition]
                                    ELSE Get(kept[i], K_comp)

\* A block with an empty competition and a non-empty comp, and a block with
\* both filled.
C5_Witness ==
    /\ Returned
    /\ \E i \in DOMAIN Kept :
           /\ Has(Kept[i], K_competition) /\ Kept[i][K_competition] = <<>>
           /\ Get(Kept[i], K_comp) # <<>>
    /\ \E i \in DOMAIN Kept :
           /\ Get(Kept[i], K_competition) # <<>>
           /\ Get(Kept[i], K_comp) # <<>>

\* The marker in any letter case.
HasMarker(u) ==
    \E i \in 1..(Len(u) - 6) :
        \A k \in 1..7 : u[i + k - 1] \in {ANAMONH[k], LowerChar(ANAMONH[k])}

UrlHasMarker(ev) == HasMarker(Get(ev, K_url))

\* C6 as claimed: pending lists, in block order, the accepted events whose
\* url holds the marker, each with its date, start, title and url as parsed.
C6_PendingRawUrl ==
    Returned =>
        \A hits \in {SelectSeq(Kept, UrlHasMarker)} :
            conv_ret.pending =
                [i \in DOMAIN hits |->
                    [date |-> Get(hits[i], K_date),
                     start |-> Get(hits[i], K_start),
                     title |-> Get(hits[i], K_title),
                     url |-> Get(hits[i], K_url)]]

\* C6 as amended: the same, the url of each entry being the parsed url
\* with its leading and trailing whitespace removed (and not escaped).
C6_PendingStrippedUrl ==
    Returned =>
        \A hits \in {SelectSeq(Kept, UrlHasMarker)} :
            conv_ret.pending =
                [i \in DOMAIN hits |->
                    [date |-> Get(hits[i], K_date),
                     start |-> Get(hits[i], K_start),
                     title |-> Get(hits[i], K_title),
                     url |-> Strip(Get(hits[i], K_url))]]

\* Two pending events that the output shows in the other order, beside a
\* discarded block that holds the marker.
C6_Witness ==
    /\ Returned
    /\ Len(conv_ret.pending) = 2
    /\ StrLess(conv_ret.pending[2].date, conv_ret.pending[1].date)
    /\ conv_ret.pending[1].url # StrUpper(conv_ret.pending[1].url)
           \/ conv_ret.pending[2].url # StrUpper(conv_ret.pending[2].url)
    /\ \E b \in DOMAIN Parsed :
           UrlHasMarker(Parsed[b]) /\ ~HasDateOrTitle(Parsed[b])

\* C9: convert returns for every text, and returns an empty output and an
\* empty pending list when no block is accepted.
C9_Total ==
    conv_ret.called =>
        /\ ~conv_ret.raised
        /\ \A kept \in {Kept} :
               /\ kept = <<>> => conv_ret.out = <<>> /\ conv_ret.pending = <<>>
               /\ kept # <<>> => conv_ret.out # <<>>

\* A text with blocks none of which is accepted, and a text whose event
\* has a duration that float() takes and int() refuses.
C9_Witness ==
    /\ conv_ret.called
    /\ \/ Parsed # <<>> /\ Kept = <<>> /\ Len(conv_text) > 3
       \/ \E i \in DOMAIN Kept :
              PyFloat(Get(Kept[i], K_duration)).kind = "inf"

-----------------------------------------------------------------------------
(* Properties of to_php_line and php_escape                                *)

LineReturned == line_ret.called /\ ~line_ret.raised

\* The duration entry of the line, as PHP reads the line.
ShownDuration == PhpRead(line_ret.line).entries[3]

\* str() of a float truncated toward zero: no sign on zero.
TruncText(f) ==
    IF f.neg /\ \E i \in DOMAIN f.digits : f.digits[i] # "0"
    THEN <<"-">> \o f.digits
    ELSE f.digits

\* C7 as claimed: every duration that float() converts is rendered as an
\* unquoted integer, every other one as a quoted string, and no duration
\* makes the rendering fail.
C7_EveryFloatUnquoted ==
    line_ret.called =>
        /\ ~line_ret.raised
        /\ PhpRead(line_ret.line).ok
        /\ ShownDuration.quoted
               = (PyFloat(Get(line_ev, K_duration)).kind = "invalid")

\* C7 as amended: a duration that float() converts to a finite number is
\* rendered as an unquoted integer, truncated toward zero; every other one
\* (inf, nan and out-of-range values included) as a quoted escaped string;
\* no duration makes the rendering fail.
C7_FiniteFloatUnquoted ==
    line_ret.called =>
        LET d == Get(line_ev, K_duration)
            f == PyFloat(d)
            entry == ShownDuration
        IN  /\ ~line_ret.raised
            /\ PhpRead(line_ret.line).ok
            /\ entry.key = K_duration
            /\ f.kind = "finite" => ~entry.quoted /\ entry.text = TruncText(f)
            /\ f.kind # "finite" => entry.quoted /\ entry.text = d

\* A negative fraction below one, rendered as 0.
C7_Witness ==
    /\ LineReturned
    /\ PyFloat(Get(line_ev, K_duration)).kind = "finite"
    /\ PyFloat(Get(line_ev, K_duration)).neg
    /\ \E i \in DOMAIN Get(line_ev, K_duration) :
           Get(line_ev, K_duration)[i] = "9"
    /\ ShownDuration.text = <<"0">>

\* The values the line is to show, in the order of its fields.
LineFields ==
    << <<K_date, Get(line_ev, K_date)>>,
       <<K_start, Get(line_ev, K_start)>>,
       <<K_duration, Get(line_ev, K_duration)>>,
       <<K_title, Get(line_ev, K_title)>>,
       <<K_sport, Get(line_ev, K_sport)>>,
       <<K_competition, IF Get(line_ev, K_competition) # <<>>
                        THEN Get(line_ev, K_competition)
                        ELSE Get(line_ev, K_comp)>>,
       <<K_url, Get(line_ev, K_url)>> >>

\* An escaped text between quotes reads back as s, the closing quote being
\* the first quote that no backslash escapes.
ReadsBack(s) ==
    LET lit == php_escape(s) \o <<"'">>
        r == ReadQuoted(lit, 1, <<>>)
    IN  r.ok /\ r.text = s /\ r.next = Len(lit) + 1

\* C8: php_escape of a field value reads back as the value, and the line
\* is an array of seven single-quoted literals (duration may be an
\* integer) that read back as the values of the fields.
C8_EscapeRoundTrip ==
    line_ret.called =>
        LET read == PhpRead(line_ret.line)
        IN  /\ ~line_ret.raised
            /\ \A k \in DOMAIN line_ev : ReadsBack(line_ev[k])
            /\ read.ok
            /\ Len(read.entries) = Len(LineFields)
            /\ \A i \in DOMAIN LineFields :
                   /\ read.entries[i].key = LineFields[i][1]
                   /\ i # 3 => /\ read.entries[i].quoted
                               /\ read.entries[i].text = LineFields[i][2]

\* A field value that holds a backslash right before a quote.
C8_Witness ==
    /\ LineReturned
    /\ \E k \in DOMAIN line_ev \ {K_duration, K_comp} :
           Contains(line_ev[k], <<"\\", "'">>)

-----------------------------------------------------------------------------
(* The window: App.open_file, App.do_convert, App.save_output              *)

MaxFileBlocks == 1

\* Pieces the files are put together from: two pending events, an event,
\* and a block that convert discards.
GuiPieces == {
    \* {date:'2',url:'anamonh'}
    <<"{","d","a","t","e",":","'","2","'",",","u","r","l",":","'","a","n","a",
      "m","o","n","h","'","}">>,
    \* {title:'p',url:'ANAMONH'}
    <<"{","t","i","t","l","e",":","'","p","'",",","u","r","l",":","'","A","N",
      "A","M","O","N","H","'","}">>,
    \* {date:'1',title:'q'}\n
    <<"{","d","a","t","e",":","'","1","'",",","t","i","t","l","e",":","'","q",
      "'","}","\n">>,
    \* {sport:'F'}
    <<"{","s","p","o","r","t",":","'","F","'","}">>}

\* The contents of the files the user can open.
Files == {Flatten(q) : q \in SeqsUpTo(GuiPieces, MaxFileBlocks)}

\* widget.get("1.0", "end"): Tk gives the content and a final newline.
WidgetGet(content) == content \o <<"\n">>

\* Line 187: the text shown when nothing is pending, taken as one symbol.
NonePending == <<"(no pending)">>

\* Line 184: f"- {p['date']} {p['start']} | {p['title']} | {p['url']}"
PendingLine(p) ==
    <<"-", " ">> \o p.date \o <<" ">> \o p.start \o <<" ", "|", " ">>
    \o p.title \o <<" ", "|", " ">> \o p.url

\* Lines 180-187: the new content of the pending widget.
PendingText(pending) ==
    IF pending # <<>>
    THEN JoinNl([i \in DOMAIN pending |-> PendingLine(pending[i])])
    ELSE NonePending

\* A slip do_convert could have: the output widget is filled before the
\* check for an empty result.
Fill_before_check(inp, out_w, pend_w, r) ==
    IF r.raised
    THEN [filled |-> FALSE, dialog |-> "none",
          output |-> out_w, pending |-> pend_w, inp |-> inp]
    ELSE IF Strip(r.out) = <<>>
    THEN [filled |-> FALSE, dialog |-> "warn_no_blocks",
          output |-> r.out, pending |-> pend_w, inp |-> inp]
    ELSE [filled |-> TRUE, dialog |-> "none",
          output |-> r.out, pending |-> PendingText(r.pending), inp |-> inp]

\* Lines 171-187: r is what convert(inp) gave.
Fill(inp, out_w, pend_w, r) ==
    IF r.raised
    THEN [filled |-> FALSE, dialog |-> "none",
          output |-> out_w, pending |-> pend_w, inp |-> inp]
    ELSE IF Strip(r.out) = <<>>
    THEN [filled |-> FALSE, dialog |-> "warn_no_blocks",
          output |-> out_w, pending |-> pend_w, inp |-> inp]
    ELSE [filled |-> TRUE, dialog |-> "none",
          output |-> r.out, pending |-> PendingText(r.pending), inp |-> inp]

\* Lines 168-171: inp is the stripped text of the input widget.
ConvertInput(inp, out_w, pend_w) ==
    IF inp = <<>>
    THEN [filled |-> FALSE, dialog |-> "warn_empty_input",
          output |-> out_w, pending |-> pend_w, inp |-> inp]
    ELSE Fill(inp, out_w, pend_w, convert(inp))

\* Lines 166-187: what do_convert leaves in the two result widgets, the
\* message box it shows, and whether it filled the widgets (from inp).
DoConvert(inp_w, out_w, pend_w) ==
    ConvertInput(Strip(WidgetGet(inp_w)), out_w, pend_w)

InitGui ==
    /\ input_text = <<>> /\ output_text = <<>> /\ pending_text = <<>>
    /\ file = NoFile /\ dialog = "none" /\ shown = NoCall
    /\ line_ev = EmptyDict /\ line_ret = NoCall
    /\ conv_text = <<>> /\ conv_ret = NoCall

\* Lines 151-164.  The dialog is cancelled, the file cannot be read, or
\* its content replaces the input.
open_file ==
    /\ \/ /\ dialog' = "none"
          /\ UNCHANGED input_text
       \/ /\ dialog' = "error"
          /\ UNCHANGED input_text
       \/ /\ \E data \in Files : input_text' = data
          /\ dialog' = "none"
    /\ UNCHANGED <<output_text, pending_text, file, shown,
                   line_ev, line_ret, conv_text, conv_ret>>

\* Lines 166-187
do_convert ==
    \E r \in {DoConvert(input_text, output_text, pending_text)} :
        /\ output_text' = r.output
        /\ pending_text' = r.pending
        /\ dialog' = r.dialog
        /\ shown' = IF r.filled THEN [called |-> TRUE, text |-> r.inp]
                    ELSE shown
        /\ UNCHANGED <<input_text, file,
                       line_ev, line_ret, conv_text, conv_ret>>

\* Lines 189-206.  Nothing to save, the dialog is cancelled, the file is
\* written, or writing fails.
save_output ==
    \E data \in {Strip(WidgetGet(output_text))} :
        /\ \/ /\ data = <<>>
              /\ dialog' = "warn_empty_output"
              /\ UNCHANGED file
           \/ /\ data # <<>>
              /\ dialog' = "none"
              /\ UNCHANGED file
           \/ /\ data # <<>>
              /\ file' = [written |-> TRUE, data |-> data \o <<"\n">>]
              /\ dialog' = "info_saved"
           \/ /\ data # <<>>
              /\ dialog' = "error"
              /\ UNCHANGED file
        /\ UNCHANGED <<input_text, output_text, pending_text, shown,
                       line_ev, line_ret, conv_text, conv_ret>>

NextGui == open_file \/ do_convert \/ save_output

SpecGui == InitGui /\ [][NextGui]_vars

-----------------------------------------------------------------------------
(* Properties of the window                                                *)

\* The two result widgets are empty, or hold the output and the pending
\* list of one call of convert that gave at least one event line.
BuffersFromOneCall ==
    IF ~shown.called THEN output_text = <<>> /\ pending_text = <<>>
    ELSE LET r == convert(shown.text)
         IN  /\ ~r.raised
             /\ Strip(r.out) # <<>>
             /\ output_text = r.out
             /\ pending_text = PendingText(r.pending)

\* A step that shows a warning leaves both result widgets as they were, a
\* step that changes one of them fills both, and a step that writes the
\* file writes the output widget's text, which is not empty.
StepKeepsOrFillsBoth ==
    /\ dialog' \in {"warn_empty_input", "warn_no_blocks", "warn_empty_output"}
           => UNCHANGED <<output_text, pending_text>>
    /\ (output_text' # output_text \/ pending_text' # pending_text)
           => /\ shown'.called
              /\ shown'.text = Strip(WidgetGet(input_text))
              /\ dialog' = "none"
    /\ file' # file
           => /\ Strip(output_text) # <<>>
              /\ file'.data = Strip(output_text) \o <<"\n">>

\* C10: across open file, Convert and Save, the output and pending widgets
\* always come from one successful conversion or are both empty; Convert
\* fills both or warns and changes neither; Save writes no file while the
\* output widget is empty.
C10_BuffersInStep == []BuffersFromOneCall /\ [][StepKeepsOrFillsBoth]_vars

\* After a conversion with a pending event was shown and saved, another
\* input gave no event and Convert warned.
C10_Witness ==
    /\ shown.called
    /\ file # NoFile
    /\ dialog = "warn_no_blocks"
    /\ pending_text # NonePending
    /\ input_text # shown.text

=============================================================================
